---------------------------- MODULE Spec2Model ----------------------------
(***************************************************************************)
(* Structural complexity scanner of docu-buddy                             *)
(* (src/backend/analysis/complexity_analyzer.py).                          *)
(*                                                                         *)
(* Texts are strings; a character is a string of length one.  The regular  *)
(* expressions of the source are kept as data (sequences of nodes) and     *)
(* run by a backtracking matcher that follows Python's re semantics:       *)
(* leftmost match, alternatives in order, greedy repetition longest        *)
(* first, lazy repetition shortest first.                                  *)
(***************************************************************************)
EXTENDS Integers, Sequences, FiniteSets, TLC

(***************************************************************************)
(* Characters and character classes.                                       *)
(***************************************************************************)
Ch(s, i) == SubSeq(s, i, i)

LowerLetters == "abcdefghijklmnopqrstuvwxyz"
UpperLetters == "ABCDEFGHIJKLMNOPQRSTUVWXYZ"
Digits == "0123456789"

CharsOf(s) == {Ch(s, k) : k \in 1..Len(s)}

\* \w of Python's re on ASCII text
WordChars == CharsOf(LowerLetters) \cup CharsOf(UpperLetters) \cup CharsOf(Digits) \cup {"_"}
\* \s of Python's re on ASCII text
SpaceChars == {" ", "\t", "\n", "\r", "\f"}

\* str.lower() on one character
LowerCh(c) ==
    IF \E k \in 1..26 : Ch(UpperLetters, k) = c
    THEN Ch(LowerLetters, CHOOSE k \in 1..26 : Ch(UpperLetters, k) = c)
    ELSE c

RECURSIVE LowerStr(_)
\* str.lower(), built by halves
LowerStr(s) ==
    IF Len(s) = 0 THEN ""
    ELSE IF Len(s) = 1 THEN LowerCh(s)
    ELSE LET h == Len(s) \div 2
         IN  LowerStr(SubSeq(s, 1, h)) \o LowerStr(SubSeq(s, h + 1, Len(s)))

SetMin(A) == CHOOSE a \in A : \A b \in A : a <= b
SetMax(A) == CHOOSE a \in A : \A b \in A : a >= b

\* str.count of a single character
CountChar(s, c) == Cardinality({k \in 1..Len(s) : Ch(s, k) = c})

\* c in s, for a single character
HasChar(s, c) == \E k \in 1..Len(s) : Ch(s, k) = c

(***************************************************************************)
(* Regular expressions as data.  A pattern is a sequence of nodes.         *)
(***************************************************************************)
\* a literal text
Str(w) == [t |-> "str", w |-> w]
\* one character of a class, [..] or [^..]
InSet(cs) == [t |-> "set", cs |-> cs, neg |-> FALSE]
NotIn(cs) == [t |-> "set", cs |-> cs, neg |-> TRUE]
\* a repeated class: X* X+ (greedy) and X*? (lazy)
Run(cs, neg, min, greedy) == [t |-> "run", cs |-> cs, neg |-> neg, min |-> min, greedy |-> greedy]
\* \w+ \s* \s+
Word1 == Run(WordChars, FALSE, 1, TRUE)
Space0 == Run(SpaceChars, FALSE, 0, TRUE)
Space1 == Run(SpaceChars, FALSE, 1, TRUE)
\* ".*" ("." is any character but a newline) and "[\s\S]*?"
DotStar == Run({"\n"}, TRUE, 0, TRUE)
AnyLazy == Run({}, TRUE, 0, FALSE)
\* (?:p)* of a pattern p, greedy or lazy
Star(p) == [t |-> "star", p |-> p, greedy |-> TRUE]
LazyStar(p) == [t |-> "star", p |-> p, greedy |-> FALSE]
\* (?:p1|p2|..) and (?:p)?
Alt(ps) == [t |-> "alt", ps |-> ps]
Opt(p) == [t |-> "alt", ps |-> <<p, <<>>>>]
\* \b and ^
WB == [t |-> "wb"]
BOL == [t |-> "bol"]
\* the capturing group 1 and the back-reference \1
Open1 == [t |-> "open"]
Close1 == [t |-> "close"]
Ref1 == [t |-> "ref"]
Group1(p) == <<Open1>> \o p \o <<Close1>>
\* (?:p)+
Plus(p) == p \o <<Star(p)>>

NoMatch == [ok |-> FALSE, start |-> 0, end |-> 0, g1 |-> <<0, 0>>]

IsWordAt(s, i) == i >= 1 /\ i <= Len(s) /\ Ch(s, i) \in WordChars

\* one character against a class, under re.IGNORECASE when ic
ClassHas(cs, neg, c, ic) ==
    LET in == IF ic THEN \E d \in cs : LowerCh(d) = LowerCh(c) ELSE c \in cs
    IN  IF neg THEN ~in ELSE in

\* the literal w at position i of s
StrAt(w, s, i, ic) ==
    /\ i + Len(w) - 1 <= Len(s)
    /\ \A k \in 1..Len(w) :
          IF ic THEN LowerCh(Ch(w, k)) = LowerCh(Ch(s, i + k - 1))
          ELSE Ch(w, k) = Ch(s, i + k - 1)

\* where the longest run of the class that starts at i ends (exclusive)
RunEnd(n, s, i, ic) ==
    SetMin({j \in i..(Len(s) + 1) : j = Len(s) + 1 \/ ~ClassHas(n.cs, n.neg, Ch(s, j), ic)})

RECURSIVE MatchAt(_, _, _, _, _)
\* The pattern p matched at position i of s (the end is exclusive); g1 is
\* the span of group 1 so far.
MatchAt(p, s, i, g1, ic) ==
    IF p = <<>> THEN [ok |-> TRUE, start |-> 0, end |-> i, g1 |-> g1]
    ELSE
    LET n == Head(p)
        rest == Tail(p)
    IN  CASE n.t = "str" ->
                IF StrAt(n.w, s, i, ic)
                THEN MatchAt(rest, s, i + Len(n.w), g1, ic) ELSE NoMatch
          [] n.t = "set" ->
                IF i <= Len(s) /\ ClassHas(n.cs, n.neg, Ch(s, i), ic)
                THEN MatchAt(rest, s, i + 1, g1, ic) ELSE NoMatch
          [] n.t = "run" ->
                LET tries == {<<j, MatchAt(rest, s, j, g1, ic)>> :
                                 j \in (i + n.min)..RunEnd(n, s, i, ic)}
                    good == {r \in tries : r[2].ok}
                IN  IF good = {} THEN NoMatch
                    ELSE IF n.greedy
                    THEN (CHOOSE r \in good : \A q \in good : r[1] >= q[1])[2]
                    ELSE (CHOOSE r \in good : \A q \in good : r[1] <= q[1])[2]
          [] n.t = "wb" ->
                IF IsWordAt(s, i - 1) # IsWordAt(s, i)
                THEN MatchAt(rest, s, i, g1, ic) ELSE NoMatch
          [] n.t = "bol" ->
                IF i = 1 THEN MatchAt(rest, s, i, g1, ic) ELSE NoMatch
          [] n.t = "open" -> MatchAt(rest, s, i, <<i, g1[2]>>, ic)
          [] n.t = "close" -> MatchAt(rest, s, i, <<g1[1], i>>, ic)
          [] n.t = "ref" ->
                IF StrAt(SubSeq(s, g1[1], g1[2] - 1), s, i, FALSE)
                THEN MatchAt(rest, s, i + (g1[2] - g1[1]), g1, ic) ELSE NoMatch
          [] n.t = "alt" ->
                LET first == MatchAt(n.ps[1] \o rest, s, i, g1, ic)
                IN  IF first.ok THEN first
                    ELSE IF Len(n.ps) = 1 THEN NoMatch
                    ELSE MatchAt(<<Alt(Tail(n.ps))>> \o rest, s, i, g1, ic)
          [] n.t = "star" ->
                IF n.greedy
                THEN LET more == MatchAt(n.p \o p, s, i, g1, ic)
                     IN  IF more.ok THEN more ELSE MatchAt(rest, s, i, g1, ic)
                ELSE LET stop == MatchAt(rest, s, i, g1, ic)
                     IN  IF stop.ok THEN stop ELSE MatchAt(n.p \o p, s, i, g1, ic)

\* re.search from position from on: the leftmost match
SearchFrom(p, s, from, ic) ==
    LET tries == {[MatchAt(p, s, i, <<0, 0>>, ic) EXCEPT !.start = i] :
                     i \in from..(Len(s) + 1)}
        good == {m \in tries : m.ok}
    IN  IF good = {} THEN NoMatch
        ELSE CHOOSE m \in good : \A q \in good : m.start <= q.start

\* re.search(p, s)
Search(p, s, ic) == SearchFrom(p, s, 1, ic)

RECURSIVE CountFrom(_, _, _, _)
\* len(re.findall(p, s)) from position i on: the matches do not overlap
CountFrom(p, s, i, ic) ==
    LET m == SearchFrom(p, s, i, ic)
    IN  IF ~m.ok THEN 0
        ELSE 1 + CountFrom(p, s, IF m.end > m.start THEN m.end ELSE m.end + 1, ic)

FindAllCount(p, s, ic) == CountFrom(p, s, 1, ic)

RECURSIVE RemoveFrom(_, _, _)
\* re.sub(p, "", s) from position i on
RemoveFrom(p, s, i) ==
    LET m == SearchFrom(p, s, i, FALSE)
    IN  IF ~m.ok THEN SubSeq(s, i, Len(s))
        ELSE SubSeq(s, i, m.start - 1)
             \o (IF m.end > m.start THEN RemoveFrom(p, s, m.end)
                 ELSE Ch(s, m.end) \o RemoveFrom(p, s, m.end + 1))

(***************************************************************************)
(* CodeComplexityAnalyzer.__init__: the language profiles.                 *)
(***************************************************************************)
\* "python": r"^\s*def\s+(\w+)\s*\("
PythonFunctionPattern ==
    <<BOL, Space0, Str("def"), Space1>> \o Group1(<<Word1>>) \o <<Space0, Str("(")>>

\* "java": r"^\s*(?:public|protected|private)?\s*(?:static\s+)?(?:[\w<>\[\]]+\s+)+
\*          (\w+)\s*\([^)]*\)\s*(?:throws\s+\w+(?:\s*,\s*\w+)*)?\s*\{"
JavaFunctionPattern ==
    <<BOL, Space0,
      Opt(<<Alt(<< <<Str("public")>>, <<Str("protected")>>, <<Str("private")>> >>)>>),
      Space0,
      Opt(<<Str("static"), Space1>>)>>
    \o Plus(<<Run(WordChars \cup {"<", ">", "[", "]"}, FALSE, 1, TRUE), Space1>>)
    \o Group1(<<Word1>>)
    \o <<Space0, Str("("), Run({")"}, TRUE, 0, TRUE), Str(")"), Space0,
         Opt(<<Str("throws"), Space1, Word1, Star(<<Space0, Str(","), Space0, Word1>>)>>),
         Space0, Str("{")>>

\* "go": r"\bfunc\s+(?:\(\w+\s+\*?\w+\)\s+)?(\w+)\s*\("
GoFunctionPattern ==
    <<WB, Str("func"), Space1,
      Opt(<<Str("("), Word1, Space1, Opt(<<Str("*")>>), Word1, Str(")"), Space1>>)>>
    \o Group1(<<Word1>>) \o <<Space0, Str("(")>>

\* "csharp": r"\b(?:public|private|protected)?\s*(?:static)?\s*\w+\s+(\w+)\s*\("
CsharpFunctionPattern ==
    <<WB, Opt(<<Alt(<< <<Str("public")>>, <<Str("private")>>, <<Str("protected")>> >>)>>),
      Space0, Opt(<<Str("static")>>), Space0, Word1, Space1>>
    \o Group1(<<Word1>>) \o <<Space0, Str("(")>>

\* "cpp": r"\b\w+\s+(\w+)\s*\([^)]*\)\s*{"
CppFunctionPattern ==
    <<WB, Word1, Space1>> \o Group1(<<Word1>>)
    \o <<Space0, Str("("), Run({")"}, TRUE, 0, TRUE), Str(")"), Space0, Str("{")>>

\* r"//.*" and r"/\*[\s\S]*?\*/"
SlashCommentPatterns ==
    << <<Str("//"), DotStar>>, <<Str("/*"), AnyLazy, Str("*/")>> >>

\* r"#.*", r'"""[\s\S]*?"""', r"'''[\s\S]*?'''"
PythonCommentPatterns ==
    << <<Str("#"), DotStar>>,
       <<Str("\"\"\""), AnyLazy, Str("\"\"\"")>>,
       <<Str("'''"), AnyLazy, Str("'''")>> >>

CFamilyKeywords == <<"if", "else", "for", "while", "switch", "case", "try", "catch">>

\* the keys of the dictionary, in insertion order
Languages == <<"python", "java", "go", "csharp", "cpp">>

language_patterns ==
    [lang \in {Languages[k] : k \in 1..Len(Languages)} |->
        CASE lang = "python" ->
                [extensions |-> <<".py">>,
                 function_pattern |-> PythonFunctionPattern,
                 branching_keywords |-> <<"if", "elif", "for", "while", "try", "except", "with">>,
                 comment_patterns |-> PythonCommentPatterns]
          [] lang = "java" ->
                [extensions |-> <<".java">>,
                 function_pattern |-> JavaFunctionPattern,
                 branching_keywords |-> CFamilyKeywords,
                 comment_patterns |-> SlashCommentPatterns]
          [] lang = "go" ->
                [extensions |-> <<".go">>,
                 function_pattern |-> GoFunctionPattern,
                 branching_keywords |-> <<"if", "for", "switch", "case", "select">>,
                 comment_patterns |-> SlashCommentPatterns]
          [] lang = "csharp" ->
                [extensions |-> <<".cs">>,
                 function_pattern |-> CsharpFunctionPattern,
                 branching_keywords |-> CFamilyKeywords,
                 comment_patterns |-> SlashCommentPatterns]
          [] lang = "cpp" ->
                [extensions |-> <<".cpp", ".cc", ".cxx", ".c", ".h", ".hpp">>,
                 function_pattern |-> CppFunctionPattern,
                 branching_keywords |-> CFamilyKeywords,
                 comment_patterns |-> SlashCommentPatterns]]

(***************************************************************************)
(* strip_string_literals                                                   *)
(***************************************************************************)
\* r'(["\'])(?:\\.|[^\\])*?\1'
StringLiteralPattern ==
    Group1(<<InSet({"\"", "'"})>>)
    \o <<LazyStar(<<Alt(<< <<Str("\\"), NotIn({"\n"})>>, <<NotIn({"\\"})>> >>)>>), Ref1>>

strip_string_literals(line) == RemoveFrom(StringLiteralPattern, line, 1)

(***************************************************************************)
(* str.split(sep), str.splitlines() for texts whose only line break is     *)
(* "\n", and sep.join.  Built by halves.                                   *)
(***************************************************************************)
RECURSIVE SplitOn(_, _)
\* s.split(sep) for a single character sep
SplitOn(s, sep) ==
    LET breaks == {k \in 1..Len(s) : Ch(s, k) = sep}
        mid == (Len(s) + 1) \div 2
        dist(k) == IF k >= mid THEN k - mid ELSE mid - k
    IN  IF breaks = {} THEN <<s>>
        ELSE LET m == CHOOSE k \in breaks :
                         \A j \in breaks : dist(k) < dist(j) \/ (dist(k) = dist(j) /\ k <= j)
             IN  SplitOn(SubSeq(s, 1, m - 1), sep) \o SplitOn(SubSeq(s, m + 1, Len(s)), sep)

\* s.split("\n")
SplitNewline(s) == SplitOn(s, "\n")

\* s.splitlines(): no empty last line after a final line break
splitlines(s) ==
    IF s = "" THEN <<>>
    ELSE IF Ch(s, Len(s)) = "\n" THEN SplitNewline(SubSeq(s, 1, Len(s) - 1))
    ELSE SplitNewline(s)

RECURSIVE JoinRange(_, _, _, _)
\* sep.join(parts[a..b])
JoinRange(parts, a, b, sep) ==
    IF a > b THEN ""
    ELSE IF a = b THEN parts[a]
    ELSE LET h == (a + b) \div 2
         IN  JoinRange(parts, a, h, sep) \o sep \o JoinRange(parts, h + 1, b, sep)

\* "\n".join(lines)
JoinNewline(lines) == JoinRange(lines, 1, Len(lines), "\n")

(***************************************************************************)
(* extract_functions, one loop iteration at a time.  The frame of a call   *)
(* is a record: pc is the position in the function, the other fields are   *)
(* its parameters and locals (i is the 0-based line index of the source).  *)
(***************************************************************************)
IdleFrame ==
    [pc |-> "idle", content |-> "", language |-> "", lines |-> <<>>, i |-> 0, line |-> "",
     func_name |-> "", start_line |-> 0, function_lines |-> <<>>, brace_count |-> 0,
     functions |-> <<>>]

\* lines 145-152: the call; "unknown" returns [] at once
ExtractCall(content, language) ==
    IF language = "unknown"
    THEN [IdleFrame EXCEPT !.pc = "done", !.content = content, !.language = language]
    ELSE [IdleFrame EXCEPT !.pc = "search", !.content = content, !.language = language,
                           !.lines = splitlines(content)]

\* start_line taken from the 0-based index
SearchLineZeroBased(e) ==
    LET line == e.lines[e.i + 1]
        func_match == Search(language_patterns[e.language].function_pattern, line, FALSE)
    IN  IF func_match.ok
        THEN [e EXCEPT !.line = line,
                       !.func_name = SubSeq(line, func_match.g1[1], func_match.g1[2] - 1),
                       !.start_line = e.i,
                       !.function_lines = <<line>>,
                       !.pc = "signature"]
        ELSE [e EXCEPT !.line = line, !.i = e.i + 1]

\* lines 154-161 and 194-195: one line tested for a signature
SearchLine(e) ==
    LET line == e.lines[e.i + 1]
        func_match == Search(language_patterns[e.language].function_pattern, line, FALSE)
    IN  IF func_match.ok
        THEN [e EXCEPT !.line = line,
                       !.func_name = SubSeq(line, func_match.g1[1], func_match.g1[2] - 1),
                       !.start_line = e.i + 1,
                       !.function_lines = <<line>>,
                       !.pc = "signature"]
        ELSE [e EXCEPT !.line = line, !.i = e.i + 1]

\* line 164: the condition of the signature loop
SignatureLoopCond(e) == ~HasChar(e.line, "{") /\ e.i + 1 < Len(e.lines)

\* lines 165-169: one more line of a multi-line signature
SignatureLine(e) ==
    [e EXCEPT !.i = e.i + 1,
              !.line = e.lines[e.i + 2],
              !.function_lines = Append(e.function_lines, e.lines[e.i + 2])]

\* a signature that met no "{" is taken for a function all the same
SignatureEndNoSkip(e) ==
    [e EXCEPT !.brace_count = CountChar(strip_string_literals(e.line), "{")
                                - CountChar(strip_string_literals(e.line), "}"),
              !.i = e.i + 1,
              !.pc = "body"]

\* the balance seeded from the line as it is written
SignatureEndRaw(e) ==
    IF ~HasChar(e.line, "{")
    THEN [e EXCEPT !.i = e.i + 1, !.pc = "search"]
    ELSE [e EXCEPT !.brace_count = CountChar(e.line, "{") - CountChar(e.line, "}"),
                   !.i = e.i + 1,
                   !.pc = "body"]

\* an abandoned signature sends the search back to the line after its first
SignatureEndRestart(e) ==
    IF ~HasChar(e.line, "{")
    THEN [e EXCEPT !.i = e.start_line, !.pc = "search"]
    ELSE SignatureEndNoSkip(e)

\* lines 171-177: after the signature loop
SignatureEnd(e) ==
    IF ~HasChar(e.line, "{")
    THEN [e EXCEPT !.i = e.i + 1, !.pc = "search"]
    ELSE [e EXCEPT !.brace_count = CountChar(strip_string_literals(e.line), "{")
                                   - CountChar(strip_string_literals(e.line), "}"),
                   !.i = e.i + 1,
                   !.pc = "body"]

\* line 179: the condition of the body loop
BodyLoopCond(e) == e.i < Len(e.lines) /\ e.brace_count > 0

\* lines 180-184: one line of the body
BodyLine(e) ==
    LET line == e.lines[e.i + 1]
        code_only == strip_string_literals(line)
    IN  [e EXCEPT !.line = line,
                  !.brace_count = e.brace_count + CountChar(code_only, "{") - CountChar(code_only, "}"),
                  !.function_lines = Append(e.function_lines, line),
                  !.i = e.i + 1]

\* end_line counted one line too far
EmitFunctionLong(e) ==
    [e EXCEPT !.functions = Append(e.functions,
                  [name |-> e.func_name,
                   start_line |-> e.start_line,
                   end_line |-> e.start_line + Len(e.function_lines),
                   content |-> e.function_lines,
                   language |-> e.language]),
              !.pc = "search"]

\* lines 186-193: the unit is appended
EmitFunction(e) ==
    [e EXCEPT !.functions = Append(e.functions,
                  [name |-> e.func_name,
                   start_line |-> e.start_line,
                   end_line |-> e.start_line + Len(e.function_lines) - 1,
                   content |-> e.function_lines,
                   language |-> e.language]),
              !.pc = "search"]

\* line 197
ReturnFunctions(e) == [e EXCEPT !.pc = "done"]

(***************************************************************************)
(* The metrics of one unit.                                                *)
(***************************************************************************)
RECURSIVE SumRange(_, _, _)
\* f[a] + .. + f[b], by halves
SumRange(f, a, b) ==
    IF a > b THEN 0
    ELSE IF a = b THEN f[a]
    ELSE LET h == (a + b) \div 2
         IN  SumRange(f, a, h) + SumRange(f, h + 1, b)

SumSeq(f) == SumRange(f, 1, Len(f))

\* str.strip() and the number of characters str.lstrip() removes
strip(s) ==
    LET solid == {k \in 1..Len(s) : Ch(s, k) \notin SpaceChars}
    IN  IF solid = {} THEN "" ELSE SubSeq(s, SetMin(solid), SetMax(solid))

LeadingSpace(s) ==
    SetMin({k \in 1..(Len(s) + 1) : k = Len(s) + 1 \/ Ch(s, k) \notin SpaceChars}) - 1

\* w in s, s.startswith(w)
Contains(s, w) == \E k \in 1..(Len(s) + 1) : StrAt(w, s, k, FALSE)
startswith(s, w) == StrAt(w, s, 1, FALSE)

\* the keyword wherever its letters occur
KeywordPatternLoose(keyword) == <<Str(keyword)>>

\* r"\b" + keyword + r"\b"
KeywordPattern(keyword) == <<WB, Str(keyword), WB>>

\* r"\b(and|or|&&|\|\|)\b"
BooleanOperatorPattern ==
    <<WB, Alt(<< <<Str("and")>>, <<Str("or")>>, <<Str("&&")>>, <<Str("||")>> >>), WB>>

calculate_cyclomatic_complexity(content, language) ==
    IF language = "unknown" THEN 1
    ELSE LET keywords == language_patterns[language].branching_keywords
         IN  1 + SumSeq([k \in 1..Len(keywords) |->
                            FindAllCount(KeywordPattern(keywords[k]), content, TRUE)])
               + FindAllCount(BooleanOperatorPattern, content, TRUE)

\* the depth at the last line, with no running maximum
calculate_nesting_depth_final(content, language) ==
    CountChar(content, "{") - CountChar(content, "}")

\* The loops of calculate_nesting_depth keep a running maximum that starts
\* at 0: the result is the largest value seen, or 0.
calculate_nesting_depth(content, language) ==
    LET lines == SplitNewline(content)
    IN  IF language = "python"
        THEN SetMax({0} \cup {LeadingSpace(lines[k]) \div 4 :
                                 k \in {j \in 1..Len(lines) : strip(lines[j]) # ""}})
        ELSE LET delta == [k \in 1..Len(lines) |->
                              CountChar(lines[k], "{") - CountChar(lines[k], "}")]
             IN  SetMax({0} \cup {SumRange(delta, 1, k) : k \in 1..Len(lines)})

calculate_function_length(content) ==
    LET lines == SplitNewline(content)
    IN  Cardinality({k \in 1..Len(lines) :
                        LET stripped == strip(lines[k])
                        IN  stripped # "" /\ ~startswith(stripped, "#")
                                          /\ ~startswith(stripped, "//")})

\* r"\(([^)]*)\)"
ParameterListPattern ==
    <<Str("(")>> \o Group1(<<Run({")"}, TRUE, 0, TRUE)>>) \o <<Str(")")>>

\* lines 268-279: the count, from the text between the parentheses
CountParams(params, language) ==
    IF params = "" THEN 0
    ELSE IF language = "python" /\ Contains(params, "self")
         THEN IF CountChar(params, ",") > 0 THEN CountChar(params, ",") ELSE 0
         ELSE CountChar(params, ",") + 1

\* lines 264-268: param_match.group(1).strip(), when there is a match
ParamsOfMatch(first_line, param_match, language) ==
    IF ~param_match.ok THEN 0
    ELSE CountParams(strip(SubSeq(first_line, param_match.g1[1], param_match.g1[2] - 1)),
                     language)

\* lines 262-264
ParamsOfLine(first_line, language) ==
    ParamsOfMatch(first_line, Search(ParameterListPattern, first_line, FALSE), language)

count_parameters(function_content, language) ==
    IF language = "unknown" THEN 0
    ELSE ParamsOfLine(SplitNewline(function_content)[1], language)

PythonControlKeywords == <<"if", "for", "while", "try", "with">>

\* line 297-300: any(keyword in stripped ...)
HasControlKeyword(stripped) ==
    \E k \in 1..Len(PythonControlKeywords) : Contains(stripped, PythonControlKeywords[k])

\* the counter set back to 1 at every line with a keyword
PythonNestingLevelFlat(lines, k) == 1

\* lines 296-301: nesting_level after the first k lines, one up for every
\* line with a keyword
PythonNestingLevel(lines, k) ==
    Cardinality({j \in 1..k : HasControlKeyword(strip(lines[j]))})

RECURSIVE BraceNestingLevel(_, _)
\* lines 304-307: nesting_level after the first k lines
BraceNestingLevel(lines, k) ==
    IF k = 0 THEN 0
    ELSE LET before == BraceNestingLevel(lines, k - 1)
             opened == IF HasChar(lines[k], "{") THEN before + 1 ELSE before
         IN  IF HasChar(lines[k], "}")
             THEN (IF opened - 1 > 0 THEN opened - 1 ELSE 0)
             ELSE opened

calculate_cognitive_complexity(content, language) ==
    IF language = "unknown" THEN 0
    ELSE LET lines == SplitNewline(content)
             keywords == language_patterns[language].branching_keywords
         IN  IF language = "python"
             \* lines 296-302: a line with a keyword adds the raised nesting_level
             THEN SumSeq([k \in 1..Len(lines) |->
                            IF HasControlKeyword(strip(lines[k]))
                            THEN PythonNestingLevel(lines, k)
                            ELSE 0])
             \* lines 304-312: every keyword found on the line adds nesting_level + 1
             ELSE SumSeq([k \in 1..Len(lines) |->
                            Cardinality({w \in 1..Len(keywords) :
                                Search(KeywordPattern(keywords[w]), strip(lines[k]), TRUE).ok})
                            * (BraceNestingLevel(lines, k) + 1)])

\* the first comparison strict
DocumentationScoreStrict(comment_lines, total_lines) ==
    IF 10 * comment_lines > 3 * total_lines THEN 10
    ELSE IF 5 * comment_lines >= total_lines THEN 8
    ELSE IF 20 * comment_lines >= 3 * total_lines THEN 6
    ELSE IF 10 * comment_lines >= total_lines THEN 4
    ELSE IF 20 * comment_lines >= total_lines THEN 2
    ELSE 0

\* doc_ratio >= 0.3 and so on compare a quotient of two line counts with a
\* decimal constant; on such counts the float comparison agrees with the
\* comparison of the cross products.
\* lines 335-349, reached with total_lines > 0
DocumentationScoreOf(comment_lines, total_lines) ==
    IF 10 * comment_lines >= 3 * total_lines THEN 10
    ELSE IF 5 * comment_lines >= total_lines THEN 8
    ELSE IF 20 * comment_lines >= 3 * total_lines THEN 6
    ELSE IF 10 * comment_lines >= total_lines THEN 4
    ELSE IF 20 * comment_lines >= total_lines THEN 2
    ELSE 0

\* lines 323-324: the lines that are not blank
TotalLines(lines) == Cardinality({k \in 1..Len(lines) : strip(lines[k]) # ""})

\* lines 328-332: the matches of all comment patterns
CommentLines(content, patterns) ==
    SumSeq([k \in 1..Len(patterns) |-> FindAllCount(patterns[k], content, FALSE)])

\* the neutral 5 also for a content without comments
calculate_documentation_score_neutral(content, language) ==
    IF language = "unknown" THEN 5
    ELSE IF CommentLines(content, language_patterns[language].comment_patterns) = 0 THEN 5
    ELSE DocumentationScoreOf(CommentLines(content, language_patterns[language].comment_patterns),
                              TotalLines(SplitNewline(content)))

calculate_documentation_score(content, language) ==
    IF language = "unknown" THEN 5
    ELSE IF TotalLines(SplitNewline(content)) = 0 THEN 5
    ELSE DocumentationScoreOf(CommentLines(content, language_patterns[language].comment_patterns),
                              TotalLines(SplitNewline(content)))

\* complexity_weights, times 20: total_score is kept as 20 * total_score,
\* an integer (function_length / 10 * 1.5 = 3 * function_length / 20 and
\* (10 - documentation_score) / 10 * 2.0 = 4 * (10 - documentation_score) / 20)
complexity_weights ==
    [cyclomatic_complexity |-> 60, nesting_depth |-> 50, function_length |-> 3,
     parameter_count |-> 20, cognitive_complexity |-> 40, documentation_penalty |-> 4]

\* the documentation score added instead of its distance from 10
TotalScoreBonus(m) ==
    m.cyclomatic_complexity * complexity_weights.cyclomatic_complexity
    + m.nesting_depth * complexity_weights.nesting_depth
    + m.function_length * complexity_weights.function_length
    + m.parameter_count * complexity_weights.parameter_count
    + m.cognitive_complexity * complexity_weights.cognitive_complexity
    + m.documentation_score * complexity_weights.documentation_penalty

\* the weighted sum without the documentation penalty
TotalScoreNoPenalty(m) ==
    m.cyclomatic_complexity * complexity_weights.cyclomatic_complexity
    + m.nesting_depth * complexity_weights.nesting_depth
    + m.function_length * complexity_weights.function_length
    + m.parameter_count * complexity_weights.parameter_count
    + m.cognitive_complexity * complexity_weights.cognitive_complexity

\* lines 373-390: the weighted sum and the documentation penalty
TotalScore(m) ==
    m.cyclomatic_complexity * complexity_weights.cyclomatic_complexity
    + m.nesting_depth * complexity_weights.nesting_depth
    + m.function_length * complexity_weights.function_length
    + m.parameter_count * complexity_weights.parameter_count
    + m.cognitive_complexity * complexity_weights.cognitive_complexity
    + (10 - m.documentation_score) * complexity_weights.documentation_penalty

\* lines 356-370: the six metrics of a text
Metrics(content, language) ==
    [cyclomatic_complexity |-> calculate_cyclomatic_complexity(content, language),
     nesting_depth |-> calculate_nesting_depth(content, language),
     function_length |-> calculate_function_length(content),
     parameter_count |-> count_parameters(content, language),
     cognitive_complexity |-> calculate_cognitive_complexity(content, language),
     documentation_score |-> calculate_documentation_score(content, language)]

\* lines 392-394: the returned ComplexityMetrics
WithTotalScore(m) ==
    [cyclomatic_complexity |-> m.cyclomatic_complexity,
     nesting_depth |-> m.nesting_depth,
     function_length |-> m.function_length,
     parameter_count |-> m.parameter_count,
     cognitive_complexity |-> m.cognitive_complexity,
     documentation_score |-> m.documentation_score,
     total_score |-> TotalScore(m)]

analyze_function(function_data) ==
    WithTotalScore(Metrics(JoinNewline(function_data.content), function_data.language))

(***************************************************************************)
(* Paths (POSIX: os.sep is "/").                                           *)
(***************************************************************************)
\* p.rstrip(os.sep)
rstrip_sep(p) ==
    LET solid == {k \in 1..Len(p) : Ch(p, k) # "/"}
    IN  IF solid = {} THEN "" ELSE SubSeq(p, 1, SetMax(solid))

\* os.path.basename(p)
basename(p) == SubSeq(p, SetMax({0} \cup {k \in 1..Len(p) : Ch(p, k) = "/"}) + 1, Len(p))

\* os.path.join(a, b)
join(a, b) ==
    IF startswith(b, "/") THEN b
    ELSE IF a = "" \/ Ch(a, Len(a)) = "/" THEN a \o b
    ELSE a \o "/" \o b

\* Path(p).suffix: from the last dot of the name, unless that dot is the
\* first or the last character of the name
suffix(p) ==
    LET name == basename(rstrip_sep(p))
        dot == SetMax({0} \cup {k \in 1..Len(name) : Ch(name, k) = "."})
    IN  IF 1 < dot /\ dot < Len(name) THEN SubSeq(name, dot, Len(name)) ELSE ""

\* the components of a path that os.path.normpath keeps (no "" and no ".")
Components(p) == SelectSeq(SplitOn(p, "/"), LAMBDA c : c # "" /\ c # ".")

\* os.path.relpath(path, start) for a path beneath start
relpath(path, start) ==
    LET parts == Components(path)
    IN  JoinRange(parts, Len(Components(start)) + 1, Len(parts), "/")

RECURSIVE Decimal(_)
\* str(n) of a natural number
Decimal(n) ==
    IF n < 10 THEN Ch(Digits, n + 1)
    ELSE Decimal(n \div 10) \o Ch(Digits, (n % 10) + 1)

(***************************************************************************)
(* should_skip_directory, should_skip_file, detect_language                *)
(***************************************************************************)
\* lines 83-89
skip_dirs ==
    {".git", ".svn", ".hg", ".bzr", "node_modules", "bower_components", "vendor",
     "packages", ".gradle", ".maven", "target", "build", "bin", "obj", "out",
     ".vscode", ".idea", ".eclipse", "__pycache__", ".pytest_cache", ".mypy_cache",
     "venv", "env", ".env", "virtualenv", "dist", "coverage", ".nyc_output", "logs",
     "log", "tmp", "temp", ".docker", "docker-compose", ".terraform", ".aws",
     "migrations", "assets", "static", "public", "resources", "docs",
     "documentation", "wiki", "test", "tests", "spec", "specs", ".settings",
     ".metadata"}

\* lines 99-109
skip_files ==
    {"package.json", "package-lock.json", "yarn.lock", "pom.xml", "build.gradle",
     "settings.gradle", "gradle.properties", "build.xml", "ivy.xml", "makefile",
     "cmake", "cmakecache.txt", "requirements.txt", "pipfile", "pipfile.lock",
     "poetry.lock", "composer.json", "composer.lock", "gemfile", "gemfile.lock",
     ".gitignore", ".gitattributes", ".gitmodules", ".dockerignore", "dockerfile",
     "readme.md", "readme.txt", "readme.rst", "license", "license.txt", "license.md",
     "changelog.md", "changelog.txt", "contributing.md", "code_of_conduct.md",
     ".editorconfig", ".eslintrc", ".prettierrc", "tsconfig.json", "jsconfig.json",
     ".babelrc", "webpack.config.js", ".travis.yml", ".circleci", "appveyor.yml",
     "jenkinsfile", ".github", "schema.sql", "seeds.sql", "todo.txt", "notes.txt",
     "manifest.mf", "meta-inf"}

\* lines 116-122
skip_extensions ==
    {".md", ".txt", ".rst", ".pdf", ".doc", ".docx", ".json", ".xml", ".yaml",
     ".yml", ".ini", ".cfg", ".conf", ".properties", ".env", ".local", ".png",
     ".jpg", ".jpeg", ".gif", ".svg", ".ico", ".bmp", ".mp3", ".mp4", ".avi", ".mov",
     ".wav", ".zip", ".tar", ".gz", ".7z", ".rar", ".exe", ".dll", ".so", ".dylib",
     ".jar", ".war", ".ear", ".db", ".sqlite", ".sqlite3", ".mdb", ".log", ".tmp",
     ".temp", ".cache", ".pem", ".key", ".crt", ".cert", ".g4", ".sh", ".bash",
     ".zsh", ".fish", ".bat", ".cmd", ".ps1", ".psm1", ".lock"}

\* the denylist alone, without the rule for names that start with a dot
should_skip_directory_listed(dirpath) == basename(rstrip_sep(dirpath)) \in skip_dirs

should_skip_directory(dirpath) ==
    LET dir_name == basename(rstrip_sep(dirpath))
    IN  dir_name \in skip_dirs \/ startswith(dir_name, ".")

\* the names compared as they are written
should_skip_file_cased(filepath) ==
    IF basename(filepath) \in skip_files THEN TRUE ELSE suffix(filepath) \in skip_extensions

should_skip_file(filepath) ==
    LET filename == LowerStr(basename(filepath))
        ext == LowerStr(suffix(filepath))
    IN  IF filename \in skip_files THEN TRUE ELSE ext \in skip_extensions

\* lines 135-138: the first profile, in the order of the dictionary, that
\* lists the extension
ProfileOf(ext) ==
    LET hits == {k \in 1..Len(Languages) :
                    \E e \in 1..Len(language_patterns[Languages[k]].extensions) :
                        language_patterns[Languages[k]].extensions[e] = ext}
    IN  IF hits = {} THEN "unknown" ELSE Languages[SetMin(hits)]

\* an extension no profile lists taken for the first profile
detect_language_first(filepath) ==
    IF should_skip_file(filepath) THEN "skip"
    ELSE IF ProfileOf(LowerStr(suffix(filepath))) = "unknown" THEN Languages[1]
    ELSE ProfileOf(LowerStr(suffix(filepath)))

detect_language(filepath) ==
    IF should_skip_file(filepath) THEN "skip"
    ELSE ProfileOf(LowerStr(suffix(filepath)))

(***************************************************************************)
(* The state.                                                              *)
(***************************************************************************)
VARIABLES
    github_repo_url,  \* the attribute main assigns after construction
    pc,               \* position of the caller
    root_path,        \* analyze_codebase: its parameter
    root_listable,    \* environment: whether root_path is a directory that can be listed
    walk,             \* os.walk: the directories still to be yielded, in order
    root,             \* the directory os.walk yielded last
    files,            \* the files of root still to be processed
    filepath,         \* the file being processed
    results,          \* analyze_codebase: its list of records
    skipped_dirs,     \* analyze_codebase: its set of skipped directories
    returned,         \* the value analyze_codebase returned
    discovered,       \* history: the records in the order they were appended
    opened,           \* history: the files open() was called on
    tagged,           \* history: each file detect_language saw, with its tag
    failed,           \* history: the files whose processing raised
    ex,               \* the frame of the running extract_functions call
    first,            \* history: input and result of the first direct call
    phase,            \* direct calls: which call is running
    unit,             \* the unit handed to analyze_function
    metrics,          \* the ComplexityMetrics analyze_function returned
    doc               \* calculate_documentation_score: its two counts and its score

vars == <<github_repo_url, pc, root_path, root_listable, walk, root, files, filepath, results,
          skipped_dirs, returned, discovered, opened, tagged, failed, ex, first,
          phase, unit, metrics, doc>>

scanVars == <<github_repo_url, root_path, root_listable, walk, root, files, filepath, results,
              skipped_dirs, returned, discovered, opened, tagged, failed>>
directVars == <<first, phase>>
calcVars == <<unit, metrics, doc>>

\* an attribute that was never assigned
NoAttribute == "<unset>"
NoMetrics == [cyclomatic_complexity |-> 0, nesting_depth |-> 0, function_length |-> 0,
              parameter_count |-> 0, cognitive_complexity |-> 0,
              documentation_score |-> 0, total_score |-> 0]
NoUnit == [content |-> <<>>, language |-> ""]
NoDoc == [comment_lines |-> 0, total_lines |-> 0, documentation_score |-> 0]
NoCall == [content |-> "", language |-> "", functions |-> <<>>]

(***************************************************************************)
(* The environment: the trees and files a scan can meet.                   *)
(***************************************************************************)
\* how deep below the root the trees go
MaxDepth == 2
\* the number of functions of the large file
BigFunctions == 104

BaseURLs == {"https://h/r/blob/main/", "u"}
RootPaths == {"./repo", "."}

BigLine(k) ==
    CASE k % 3 = 0 -> "func a() {}"
      [] k % 3 = 1 -> "func b(x) { if x {} }"
      [] k % 3 = 2 -> "func c() {}"

RECURSIVE BigText(_, _)
\* the functions a..b of the large file, one per line
BigText(a, b) ==
    IF a > b THEN ""
    ELSE IF a = b THEN BigLine(a) \o "\n"
    ELSE LET h == (a + b) \div 2 IN BigText(a, h) \o BigText(h + 1, b)

SmallText == "int p(a) {\n  if (a) { }\n}\nint q() {}\n"

\* what read() returns, by the name of the file
FileContent(file) ==
    CASE file = "big.go" -> BigText(1, BigFunctions)
      [] file = "c.py" -> "def h(self, a):\n    d = {}\n"
      [] file \in {"e.go", "b.go"} -> "func u() {}\nfunc v() {}\n"
      [] OTHER -> SmallText

\* open() raises on these
UnreadableFiles == {"b.go"}

Depth(dirpath) == CountChar(dirpath, "/") - CountChar(root_path, "/")

\* what os.scandir can list in a directory
DirListings(dirpath) ==
    IF Depth(dirpath) >= MaxDepth THEN {<<>>}
    ELSE IF Depth(dirpath) = 0 THEN {<<>>, <<"src">>, <<"node_modules", "lib">>, <<".git">>}
    ELSE {<<>>, <<"lib">>}

FileListings(dirpath) ==
    {<<>>,
     <<"A.CPP", "package.json", "b.go">>,
     <<"Makefile", "m.rs", "data.JSON", "c.py", "e.go">>}
    \cup (IF Depth(dirpath) = 0 THEN {<<"big.go", "a.cpp">>} ELSE {})

(***************************************************************************)
(* main, line 472: the base URL is assigned to the analyzer.               *)
(***************************************************************************)
AssignRepoUrl ==
    /\ pc = "idle"
    /\ github_repo_url = NoAttribute
    /\ \E repo_url \in BaseURLs : github_repo_url' = repo_url
    /\ UNCHANGED <<pc, root_path, root_listable, walk, root, files, filepath, results,
                   skipped_dirs, returned, discovered, opened, tagged, failed, ex,
                   directVars, calcVars>>

(***************************************************************************)
(* analyze_codebase                                                        *)
(***************************************************************************)
\* lines 396-402: the call.  os.walk of a directory that does not exist or
\* cannot be listed yields nothing (its onerror is None).
StartScan ==
    /\ pc = "idle"
    /\ \E path \in RootPaths, listable \in BOOLEAN :
          /\ root_path' = path
          /\ root_listable' = listable
          /\ walk' = IF listable THEN <<path>> ELSE <<>>
    /\ pc' = "scan"
    /\ results' = <<>>
    /\ skipped_dirs' = {}
    /\ UNCHANGED <<github_repo_url, root, files, filepath, returned, discovered, opened,
                   tagged, failed, ex, directVars, calcVars>>

\* lines 402-414: os.walk yields the next directory; its sub-directories
\* are walked next, before the directories that were already pending.
WalkNext ==
    /\ pc = "scan" /\ files = <<>> /\ walk # <<>>
    /\ \E dirs \in DirListings(Head(walk)), names \in FileListings(Head(walk)) :
          LET top == Head(walk)
              kept == SelectSeq(dirs, LAMBDA d : ~should_skip_directory(join(top, d)))
              into(ds) == [k \in 1..Len(ds) |-> join(top, ds[k])]
          IN  /\ root' = top
              /\ IF should_skip_directory(top)
                 THEN /\ skipped_dirs' = skipped_dirs \cup {top}
                      /\ walk' = into(dirs) \o Tail(walk)
                      /\ files' = <<>>
                 ELSE /\ skipped_dirs' = skipped_dirs
                      /\ walk' = into(kept) \o Tail(walk)
                      /\ files' = names
    /\ UNCHANGED <<github_repo_url, pc, root_path, root_listable, filepath, results,
                   returned, discovered, opened, tagged, failed, ex, directVars, calcVars>>

\* an exception that leaves analyze_codebase
AbortAfterError == "raised"

\* lines 458-460: the handler prints and continues with the next file
ContinueAfterError == "scan"

\* a frame that starts with the list the last call left behind
StartCallKeep(content, language) ==
    [ExtractCall(content, language) EXCEPT !.functions = ex.functions]

\* line 427 and any other call site: self.extract_functions(content, language)
\* runs in a frame of its own
StartCall(content, language) == ExtractCall(content, language)

\* lines 416-428: the next file, up to the call of extract_functions
ProcessFile ==
    /\ pc = "scan" /\ files # <<>>
    /\ LET file == Head(files)
           path == join(root, file)
           language == detect_language(path)
       IN  /\ filepath' = path
           /\ tagged' = tagged \cup {<<path, language>>}
           /\ files' = Tail(files)
           /\ IF language \in {"unknown", "skip"}
              THEN UNCHANGED <<pc, opened, failed, ex>>
              ELSE /\ opened' = opened \cup {path}
                   /\ IF file \in UnreadableFiles
                      THEN /\ failed' = failed \cup {path}
                           /\ pc' = ContinueAfterError
                           /\ UNCHANGED ex
                      ELSE /\ ex' = StartCall(FileContent(file), language)
                           /\ pc' = "extract"
                           /\ UNCHANGED failed
    /\ UNCHANGED <<github_repo_url, root_path, root_listable, walk, root, results,
                   skipped_dirs, returned, discovered, directVars, calcVars>>

\* lines 443-454: "rule_analysis"
RuleAnalysis(m) ==
    [cyclomatic_complexity |-> m.cyclomatic_complexity,
     nesting_depth |-> m.nesting_depth,
     function_length |-> m.function_length,
     parameter_count |-> m.parameter_count,
     cognitive_complexity |-> m.cognitive_complexity,
     documentation_score |-> m.documentation_score,
     rule_score |-> m.total_score]

\* a record whose lines are counted on from the records already collected
ResultRecordCounted(func, language) ==
    [function_name |-> func.name,
     file_url |-> "file:///" \o filepath,
     github_url |-> github_repo_url \o relpath(filepath, root_path) \o "#L"
                    \o Decimal(func.start_line) \o "-L" \o Decimal(func.end_line),
     start_line |-> Len(results) + func.start_line,
     end_line |-> Len(results) + func.end_line,
     language |-> language,
     rule_analysis |-> RuleAnalysis(analyze_function(func))]

\* lines 432-455: the record of one function
ResultRecord(func, language) ==
    [function_name |-> func.name,
     file_url |-> "file:///" \o filepath,
     github_url |-> github_repo_url \o relpath(filepath, root_path) \o "#L"
                    \o Decimal(func.start_line) \o "-L" \o Decimal(func.end_line),
     start_line |-> func.start_line,
     end_line |-> func.end_line,
     language |-> language,
     rule_analysis |-> RuleAnalysis(analyze_function(func))]

\* reading the attribute never raises
RecordsAllAppended(functions) == Len(functions)

\* How many functions of the file get their record before an exception
\* ends the try block: reading self.github_repo_url (line 438) raises
\* AttributeError at the first one when the attribute was never assigned.
RecordsBeforeFailure(functions) ==
    IF github_repo_url = NoAttribute THEN 0
    ELSE Len(functions)

\* lines 430-455: the records of the functions analysed before the handler
RecordsOf(functions, n, language) == [k \in 1..n |-> ResultRecord(functions[k], language)]

\* lines 430-460: the loop over the functions of the file, and the handler
AppendResults ==
    /\ pc = "extract" /\ ex.pc = "done"
    /\ results' = results \o RecordsOf(ex.functions, RecordsBeforeFailure(ex.functions),
                                       ex.language)
    /\ discovered' = discovered \o SubSeq(results', Len(results) + 1, Len(results'))
    /\ failed' = IF RecordsBeforeFailure(ex.functions) < Len(ex.functions)
                 THEN failed \cup {filepath} ELSE failed
    /\ ex' = IdleFrame
    /\ pc' = IF RecordsBeforeFailure(ex.functions) < Len(ex.functions)
             THEN ContinueAfterError ELSE "scan"
    /\ UNCHANGED <<github_repo_url, root_path, root_listable, walk, root, files, filepath,
                   skipped_dirs, returned, opened, tagged, directVars, calcVars>>

\* the length of the list analyze_codebase returns
TopN == 100

\* a descending sort that puts the later of two equal records first
SortTiesReversed(rs) ==
    LET key(k) == rs[k].rule_analysis.rule_score
        place == {<<Cardinality({j \in 1..Len(rs) :
                        key(j) > key(k) \/ (key(j) = key(k) /\ j > k)}) + 1, k>> :
                     k \in 1..Len(rs)}
    IN  [p \in 1..Len(rs) |-> rs[(CHOOSE pk \in place : pk[1] = p)[2]]]

\* results.sort(key=rule_score, reverse=True): list.sort is stable, also
\* with reverse=True, so a record moves to the place given by the number of
\* records that have a higher score, or the same score and an earlier place
SortByScoreDescending(rs) ==
    LET key(k) == rs[k].rule_analysis.rule_score
        place == {<<Cardinality({j \in 1..Len(rs) :
                        key(j) > key(k) \/ (key(j) = key(k) /\ j < k)}) + 1, k>> :
                     k \in 1..Len(rs)}
    IN  [p \in 1..Len(rs) |-> rs[(CHOOSE pk \in place : pk[1] = p)[2]]]

\* the whole list
PrefixUncut(rs, n) == rs

\* rs[:n]
Prefix(rs, n) == SubSeq(rs, 1, IF Len(rs) < n THEN Len(rs) ELSE n)

\* lines 462-464
FinishScan ==
    /\ pc = "scan" /\ files = <<>> /\ walk = <<>>
    /\ results' = SortByScoreDescending(results)
    /\ returned' = Prefix(results', TopN)
    /\ pc' = "done"
    /\ UNCHANGED <<github_repo_url, root_path, root_listable, walk, root, files, filepath,
                   skipped_dirs, discovered, opened, tagged, failed, ex, directVars,
                   calcVars>>

(***************************************************************************)
(* extract_functions: the steps of the running call                        *)
(***************************************************************************)
ExSearchLine ==
    /\ ex.pc = "search" /\ ex.i < Len(ex.lines)
    /\ ex' = SearchLine(ex)
    /\ UNCHANGED <<pc, scanVars, directVars, calcVars>>

ExSignatureLine ==
    /\ ex.pc = "signature" /\ SignatureLoopCond(ex)
    /\ ex' = SignatureLine(ex)
    /\ UNCHANGED <<pc, scanVars, directVars, calcVars>>

ExSignatureEnd ==
    /\ ex.pc = "signature" /\ ~SignatureLoopCond(ex)
    /\ ex' = SignatureEnd(ex)
    /\ UNCHANGED <<pc, scanVars, directVars, calcVars>>

ExBodyLine ==
    /\ ex.pc = "body" /\ BodyLoopCond(ex)
    /\ ex' = BodyLine(ex)
    /\ UNCHANGED <<pc, scanVars, directVars, calcVars>>

ExEmitFunction ==
    /\ ex.pc = "body" /\ ~BodyLoopCond(ex)
    /\ ex' = EmitFunction(ex)
    /\ UNCHANGED <<pc, scanVars, directVars, calcVars>>

ExReturn ==
    /\ ex.pc = "search" /\ ex.i >= Len(ex.lines)
    /\ ex' = ReturnFunctions(ex)
    /\ UNCHANGED <<pc, scanVars, directVars, calcVars>>

(***************************************************************************)
(* extract_functions called directly: a first call, then possibly a call   *)
(* on another text, then the first call repeated on the same arguments.    *)
(* extract_functions reads no attribute but language_patterns, which       *)
(* __init__ sets to the same value in every instance.                      *)
(***************************************************************************)
\* the longest text, in lines
MaxLines == 3

ExtractLines ==
    {"func f(a, b) {", "func g(x)", "}", "  s = \"{\"", "def h(self, a):", "  if a { b() }"}

Tags == {"python", "java", "go", "csharp", "cpp", "unknown"}

Texts == {JoinNewline(ls) : ls \in UNION {[1..n -> ExtractLines] : n \in 0..MaxLines}}

OtherText == "func w() {\n}"

CallFirst ==
    /\ pc = "direct" /\ phase = ""
    /\ ex' = StartCall(first.content, first.language)
    /\ phase' = "first"
    /\ UNCHANGED <<pc, scanVars, first, calcVars>>

CallOther ==
    /\ pc = "direct" /\ phase = "first" /\ ex.pc = "done"
    /\ first' = [first EXCEPT !.functions = ex.functions]
    /\ ex' = StartCall(OtherText, "go")
    /\ phase' = "other"
    /\ UNCHANGED <<pc, scanVars, calcVars>>

\* texts of five lines that differ only in what stands between the two double
\* quotes of line 2; in template 2 a comment with an apostrophe precedes them
QuotedInsides == {"a", "{", "}", "it's {"}
QuotedText(template, inside) ==
    "func f() {\n"
    \o (IF template = 1 THEN "  s = \"" ELSE "  n = 1 // don't \"")
    \o inside \o "\"\n}\nfunc g() {\n}"

\* a second call on the text of the first with the quoted text replaced
CallReplaced ==
    /\ pc = "direct" /\ phase = "first" /\ ex.pc = "done"
    /\ first' = [first EXCEPT !.functions = ex.functions]
    /\ \E template \in 1..2, inside \in QuotedInsides, other \in QuotedInsides :
          /\ first.content = QuotedText(template, inside)
          /\ other # inside
          /\ ex' = StartCall(QuotedText(template, other), first.language)
    /\ phase' = "replaced"
    /\ UNCHANGED <<pc, scanVars, calcVars>>

CallAgain ==
    /\ pc = "direct" /\ phase \in {"first", "other"} /\ ex.pc = "done"
    /\ first' = IF phase = "first" THEN [first EXCEPT !.functions = ex.functions] ELSE first
    /\ ex' = StartCall(first.content, first.language)
    /\ phase' = IF phase = "first" THEN "again" ELSE "again after other"
    /\ UNCHANGED <<pc, scanVars, calcVars>>

(***************************************************************************)
(* analyze_function called on one unit.                                    *)
(***************************************************************************)
\* the longest unit, in lines
MaxUnitLines == 2

UnitLines ==
    {"function f(a,b){ if(a){ for(x;y;z){} } }", "function f(a,b){", " if(a){",
     "  for(x;y;z){}", " }", "def h(self, a):  # doc"}

Units == UNION {[1..n -> UnitLines] : n \in 1..MaxUnitLines}

\* a unit of total lines, the first comments of them comment lines
CommentedUnit(comments, total) ==
    [k \in 1..total |-> IF k <= comments THEN "// note" ELSE "x = 1"]

\* further units: branching keywords (repeated, in capitals, inside longer
\* words, none at all), boolean operators (as words and as symbols, next to
\* their operands and apart from them), control statements one after another
\* and nested, parameter lists with and without self, and comment lines
\* among ten lines
MeasureUnits ==
    {<<"if if IF x">>, <<"elif x: ifx = 1">>, <<"} else if (a) { while (b) {">>,
     <<"x = 1">>, <<"switch (x) { case 1: case 2: }">>, <<"format(x); notify_case = 2">>,
     <<"a and b">>, <<"a&&b">>, <<"a && b">>, <<"a||b or c">>, <<"a || b">>, <<"band = fork">>,
     <<"if a:", "  x = 1", "for b in c:", "  while d:", "notify()", "with e:">>,
     <<"def f(myself):">>, <<"def f(a, self, b):">>, <<"def f():">>, <<"def f( ):">>,
     <<"def f(a, b):">>, <<"def f(self):">>}
    \cup {CommentedUnit(comments, 10) : comments \in 0..3}

\* the counts calculate_documentation_score can reach line 335 with
MaxCountedLines == 20
RatioCounts ==
    ((0..MaxCountedLines) \X (1..MaxCountedLines))
    \cup {<<299, 1000>>, <<300, 1000>>, <<199, 1000>>, <<200, 1000>>, <<149, 1000>>,
          <<99, 1000>>, <<49, 1000>>, <<50, 1000>>}

\* lines 335-349 on the two counts
ScoreRatio ==
    /\ pc = "ratio"
    /\ doc' = [doc EXCEPT !.documentation_score =
                  DocumentationScoreOf(doc.comment_lines, doc.total_lines)]
    /\ pc' = "scored"
    /\ UNCHANGED <<scanVars, ex, directVars, unit, metrics>>

AnalyzeUnit ==
    /\ pc = "calc"
    /\ metrics' = analyze_function(unit)
    /\ pc' = "calculated"
    /\ UNCHANGED <<scanVars, ex, directVars, unit, doc>>

(***************************************************************************)
(* The specifications.                                                     *)
(***************************************************************************)
InitCommon ==
    /\ github_repo_url = NoAttribute
    /\ root_path = "" /\ root_listable = FALSE /\ walk = <<>> /\ root = ""
    /\ files = <<>> /\ filepath = ""
    /\ results = <<>> /\ skipped_dirs = {} /\ returned = <<>> /\ discovered = <<>>
    /\ opened = {} /\ tagged = {} /\ failed = {}

\* the scan of a tree: main's analyzer, before the base URL is assigned
Init ==
    /\ InitCommon
    /\ pc = "idle"
    /\ ex = IdleFrame
    /\ first = NoCall /\ phase = ""
    /\ unit = NoUnit /\ metrics = NoMetrics /\ doc = NoDoc

Next ==
    \/ AssignRepoUrl
    \/ StartScan
    \/ WalkNext
    \/ ProcessFile
    \/ AppendResults
    \/ FinishScan
    \/ ExSearchLine
    \/ ExSignatureLine
    \/ ExSignatureEnd
    \/ ExBodyLine
    \/ ExEmitFunction
    \/ ExReturn

Spec == Init /\ [][Next]_vars

\* direct calls, the first on any text and tag
InitExtract ==
    /\ InitCommon
    /\ pc = "direct"
    /\ \E content \in Texts \cup {QuotedText(t[1], t[2]) : t \in (1..2) \X QuotedInsides},
          language \in Tags :
          first = [content |-> content, language |-> language, functions |-> <<>>]
    /\ ex = IdleFrame
    /\ phase = ""
    /\ unit = NoUnit /\ metrics = NoMetrics /\ doc = NoDoc

NextExtract ==
    \/ CallFirst
    \/ CallOther
    \/ CallAgain
    \/ CallReplaced
    \/ ExSearchLine
    \/ ExSignatureLine
    \/ ExSignatureEnd
    \/ ExBodyLine
    \/ ExEmitFunction
    \/ ExReturn

SpecExtract == InitExtract /\ [][NextExtract]_vars

\* analyze_function on any unit and tag
InitCalc ==
    /\ InitCommon
    /\ ex = IdleFrame
    /\ first = NoCall /\ phase = ""
    /\ metrics = NoMetrics
    /\ \/ /\ pc = "calc"
          /\ \E content \in Units \cup MeasureUnits, language \in Tags :
                unit = [content |-> content, language |-> language]
          /\ doc = NoDoc
       \/ /\ pc = "ratio"
          /\ unit = NoUnit
          /\ \E counts \in RatioCounts :
                doc = [comment_lines |-> counts[1], total_lines |-> counts[2],
                       documentation_score |-> 0]

NextCalc == AnalyzeUnit \/ ScoreRatio

SpecCalc == InitCalc /\ [][NextCalc]_vars

(***************************************************************************)
(* The claims.                                                             *)
(***************************************************************************)
\* C1: for every tree and base URL, analyze_codebase returns at most 100
\* records, and the rule_score of each returned record is greater than or
\* equal to the rule_score of the record that follows it.
C1_CappedNonIncreasing ==
    pc = "done" =>
        /\ Len(returned) <= 100
        /\ \A k \in 1..(Len(returned) - 1) :
              returned[k].rule_analysis.rule_score
                  >= returned[k + 1].rule_analysis.rule_score

\* a scan that found more than 100 functions, with different scores
C1_Witness ==
    /\ pc = "done"
    /\ Len(discovered) > 100
    /\ Len(returned) = 100
    /\ returned[1].rule_analysis.rule_score > returned[100].rule_analysis.rule_score

\* C2: the returned list is the first min(100, N) elements of a stable
\* descending sort by rule_score of the N records in discovery order: every
\* returned record is a discovered record, among the returned records a
\* higher score comes first and equal scores keep their discovery order, and
\* a discarded record has a lower score than every retained one, or the same
\* score and a later discovery.
C2_StableSortPrefix ==
    pc = "done" =>
        LET N == Len(discovered)
            score(r) == r.rule_analysis.rule_score
            at == <<>> \o [k \in 1..Len(returned) |->
                              IF \E d \in 1..N : discovered[d] = returned[k]
                              THEN CHOOSE d \in 1..N : discovered[d] = returned[k]
                              ELSE 0]
            kept == {at[k] : k \in 1..Len(at)}
        IN  /\ Len(returned) = IF N < 100 THEN N ELSE 100
            /\ 0 \notin kept
            /\ \A j \in 1..Len(at) : \A k \in (j + 1)..Len(at) :
                  \/ score(returned[j]) > score(returned[k])
                  \/ score(returned[j]) = score(returned[k]) /\ at[j] < at[k]
            /\ \A d \in (1..N) \ kept : \A k \in kept :
                  \/ score(discovered[d]) < score(discovered[k])
                  \/ score(discovered[d]) = score(discovered[k]) /\ d > k

\* a scan that discarded a record whose score a retained record shares
C2_Witness ==
    /\ pc = "done"
    /\ Len(discovered) > 100
    /\ \E d \in 1..Len(discovered) :
          /\ \A k \in 1..Len(returned) : returned[k] # discovered[d]
          /\ \E k \in 1..Len(returned) :
                returned[k].rule_analysis.rule_score
                    = discovered[d].rule_analysis.rule_score

\* C3: the units extract_functions emits are in file order and do not
\* overlap: each unit ends at or after its first line, and the unit that
\* follows it starts after its last line.
C3_UnitsInOrderDisjoint ==
    /\ \A k \in 1..Len(ex.functions) :
          ex.functions[k].start_line <= ex.functions[k].end_line
    /\ \A k \in 1..(Len(ex.functions) - 1) :
          ex.functions[k + 1].start_line > ex.functions[k].end_line

\* a call that returned two units, the first of more than one line
C3_Witness ==
    /\ pc = "direct" /\ phase = "first" /\ ex.pc = "done"
    /\ Len(ex.functions) >= 2
    /\ ex.functions[1].end_line > ex.functions[1].start_line

\* C4: a line that matches the signature pattern of the language, with no
\* opening brace on it or on any later line of the text, gets no unit, and
\* the call returns.
C4_SignatureWithoutBrace ==
    (ex.pc = "done" /\ ex.language # "unknown") =>
        \A k \in 1..Len(ex.lines) :
            (/\ Search(language_patterns[ex.language].function_pattern,
                       ex.lines[k], FALSE).ok
             /\ \A j \in k..Len(ex.lines) : ~HasChar(ex.lines[j], "{"))
            => \A u \in 1..Len(ex.functions) : ex.functions[u].start_line # k

\* a call that returned a unit and then met a signature with no brace after
C4_Witness ==
    /\ pc = "direct" /\ phase = "first" /\ ex.pc = "done"
    /\ ex.language = "go"
    /\ Len(ex.functions) = 1
    /\ Len(ex.lines) = 3
    /\ ex.lines[3] = "func g(x)"

\* C5: for every root path, no file beneath a directory whose base name is
\* in the directory denylist or starts with a dot is opened.
C5_ExcludedSubtreesNeverRead ==
    \A path \in opened :
        LET below == Components(relpath(path, root_path))
        IN  \A k \in 1..(Len(below) - 1) :
                below[k] \notin skip_dirs /\ ~startswith(below[k], ".")

\* C6: a file whose name, compared without case, is in the filename
\* denylist, or whose extension is in the extension denylist, is tagged
\* "skip", is never opened and has no record in the result.
C6_DenylistedFilesSkipped ==
    \A t \in tagged :
        (\/ LowerStr(basename(t[1])) \in skip_files
         \/ LowerStr(suffix(t[1])) \in skip_extensions)
        => /\ t[2] = "skip"
           /\ t[1] \notin opened
           /\ "file:///" \o t[1] \notin {results[k].file_url : k \in 1..Len(results)}
           /\ "file:///" \o t[1] \notin {returned[k].file_url : k \in 1..Len(returned)}

\* a finished scan that met a denylisted name written in capitals and a
\* denylisted extension written in capitals, next to files with records
C6_Witness ==
    /\ pc = "done"
    /\ returned # <<>>
    /\ <<"./repo/Makefile", "skip">> \in tagged
    /\ <<"./repo/data.JSON", "skip">> \in tagged

\* C7: when the root directory does not exist or cannot be read, the call
\* is rejected and does not complete as a scan that returns a list.
C7_MissingRootRejected == pc = "done" => root_listable

\* C8: a failure raised for one file does not abort the scan: the scan goes
\* on with the files and directories that were pending, and every record
\* appended so far is kept.
C8_FailureDoesNotAbort ==
    [][failed' # failed =>
          /\ pc' = "scan"
          /\ walk' = walk
          /\ files' = files \/ (files # <<>> /\ files' = Tail(files))
          /\ Len(results') >= Len(results)
          /\ SubSeq(results', 1, Len(results)) = results]_vars

\* a scan that returned records of a file processed before the file that
\* could not be opened and of a file processed after it
C8_Witness ==
    /\ pc = "done"
    /\ "./repo/b.go" \in failed
    /\ \E k \in 1..Len(returned) : returned[k].file_url = "file:///./repo/A.CPP"
    /\ \E k \in 1..Len(returned) : returned[k].file_url = "file:///./repo/src/e.go"

C10_WorkedExample ==
    (/\ pc = "calculated"
     /\ unit.content = <<"function f(a,b){ if(a){ for(x;y;z){} } }">>
     /\ unit.language \in {"java", "go", "csharp", "cpp"})
    => /\ metrics.cyclomatic_complexity = 3
       /\ metrics.nesting_depth = 2
       /\ metrics.parameter_count = 2

\* C11: cyclomatic complexity is 1 plus the number of whole-word
\* occurrences, in any letter case and each one counted, of the branching
\* keywords of the language, plus the boolean operators found; it is at
\* least 1, and exactly 1 for a unit with no branching keyword and no
\* boolean operator.
C11_CyclomaticCountsKeywords ==
    pc = "calculated" =>
        /\ metrics.cyclomatic_complexity >= 1
        /\ unit.language # "unknown" =>
              LET text == LowerStr(JoinNewline(unit.content))
                  keywords == language_patterns[unit.language].branching_keywords
                  last(i, w) == i + Len(w) - 1
                  occurrences(w) ==
                      Cardinality({i \in 1..(Len(text) - Len(w) + 1) :
                          /\ SubSeq(text, i, last(i, w)) = w
                          /\ (i = 1 \/ Ch(text, i - 1) \notin WordChars)
                          /\ (last(i, w) = Len(text)
                                \/ Ch(text, last(i, w) + 1) \notin WordChars)})
                  total == SumSeq(<<>> \o [k \in 1..Len(keywords) |-> occurrences(keywords[k])])
                  booleans == FindAllCount(BooleanOperatorPattern, JoinNewline(unit.content), TRUE)
              IN  /\ metrics.cyclomatic_complexity = 1 + total + booleans
                  /\ (total = 0 /\ \A op \in {"and", "or", "&&", "||"} : ~Contains(text, op))
                        => metrics.cyclomatic_complexity = 1

\* a unit that repeats a keyword, once in capitals
C11_Witness ==
    /\ pc = "calculated"
    /\ unit = [content |-> <<"if if IF x">>, language |-> "go"]
    /\ metrics.cyclomatic_complexity = 4

\* the score the thresholds on r = matches / lines give, r compared in hundredths
C12_ThresholdScore(matches, lines) ==
    IF 100 * matches >= 30 * lines THEN 10
    ELSE IF 100 * matches >= 20 * lines THEN 8
    ELSE IF 100 * matches >= 15 * lines THEN 6
    ELSE IF 100 * matches >= 10 * lines THEN 4
    ELSE IF 100 * matches >= 5 * lines THEN 2
    ELSE 0

\* C12: the documentation score is fixed by r = comment-pattern matches /
\* non-blank lines: r >= 0.30 gives 10, r >= 0.20 gives 8, r >= 0.15 gives 6,
\* r >= 0.10 gives 4, r >= 0.05 gives 2, anything lower 0; 3 matches over
\* 10 lines score 10 and 299 over 1000 score 8.
C12_DocumentationThresholds ==
    /\ pc = "scored" =>
          /\ doc.documentation_score = C12_ThresholdScore(doc.comment_lines, doc.total_lines)
          /\ (doc.comment_lines = 3 /\ doc.total_lines = 10) => doc.documentation_score = 10
          /\ (doc.comment_lines = 299 /\ doc.total_lines = 1000) => doc.documentation_score = 8
    /\ (pc = "calculated" /\ unit.language # "unknown") =>
          LET content == JoinNewline(unit.content)
              patterns == language_patterns[unit.language].comment_patterns
              matches == SumSeq(<<>> \o [k \in 1..Len(patterns) |->
                                          FindAllCount(patterns[k], content, FALSE)])
              nonblank == Cardinality({k \in 1..Len(unit.content) :
                              \E i \in 1..Len(unit.content[k]) :
                                  Ch(unit.content[k], i) \notin SpaceChars})
          IN  nonblank > 0 => metrics.documentation_score = C12_ThresholdScore(matches, nonblank)

\* the two worked ratios: 299 over 1000 scored 8 ...
C12_Witness ==
    /\ pc = "scored"
    /\ doc = [comment_lines |-> 299, total_lines |-> 1000, documentation_score |-> 8]

\* ... and a unit of ten lines, three of them comments, scored 10
C12_WitnessUnit ==
    /\ pc = "calculated"
    /\ unit = [content |-> CommentedUnit(3, 10), language |-> "go"]
    /\ metrics.documentation_score = 10

\* the profiles that list an extension
C13_ProfilesListing(ext) ==
    {k \in 1..Len(Languages) :
        \E e \in 1..Len(language_patterns[Languages[k]].extensions) :
            language_patterns[Languages[k]].extensions[e] = ext}

\* C13: an extension, compared in lower case, is listed by at most one
\* language profile; a file that is not denylisted and whose extension no
\* profile lists is tagged "unknown", is never opened and leaves no record.
C13_UnknownShortCircuits ==
    /\ \A k \in 1..Len(Languages) :
          \A e \in 1..Len(language_patterns[Languages[k]].extensions) :
              Cardinality(C13_ProfilesListing(language_patterns[Languages[k]].extensions[e])) = 1
    /\ \A t \in tagged :
          LET listing == C13_ProfilesListing(LowerStr(suffix(t[1])))
          IN  /\ Cardinality(listing) <= 1
              /\ (t[2] \notin {"skip", "unknown"}) => listing = {k \in 1..Len(Languages) : Languages[k] = t[2]}
              /\ (~should_skip_file(t[1]) /\ listing = {}) => t[2] = "unknown"
              /\ t[2] = "unknown" =>
                    /\ t[1] \notin opened
                    /\ \A k \in 1..Len(discovered) : discovered[k].file_url # "file:///" \o t[1]
                    /\ \A k \in 1..Len(results) : results[k].file_url # "file:///" \o t[1]
                    /\ (pc = "done" => \A k \in 1..Len(returned) :
                                          returned[k].file_url # "file:///" \o t[1])

\* a finished scan that met a file with an extension no profile lists, and
\* files it did open
C13_Witness ==
    /\ pc = "done"
    /\ \E t \in tagged : t[2] = "unknown" /\ basename(t[1]) = "m.rs"
    /\ opened # {}
    /\ results # <<>>

\* the step that abandons a signature: the signature loop is left with no "{"
C14_Abandons == ex.pc = "signature" /\ ex'.pc = "search"

\* C14 as stated: when the end of the file is reached while a signature that
\* matched at line m is captured and no "{" was found, the attempt is
\* abandoned and the search resumes at line m + 1, not later (i is the
\* 0-based index of the next line tested, so line m + 1 is i = m).
C14_ResumesAfterMatch ==
    [][C14_Abandons => ex'.i = ex.start_line]_vars

\* C14 as the code has it: the attempt is abandoned with every line of the
\* file consumed, no unit is added, and no line after m is tested: the search
\* resumes past the last line.
C14_ResumesAtEndOfFile ==
    [][C14_Abandons =>
          /\ ~HasChar(ex.line, "{")
          /\ ex.i + 1 = Len(ex.lines)
          /\ ex'.i = Len(ex.lines)
          /\ ex'.functions = ex.functions]_vars

\* a signature at line 1 of a longer file was abandoned at the end of the file
C14_Witness ==
    /\ pc = "direct"
    /\ ex.pc = "search"
    /\ ex.start_line = 1
    /\ Len(ex.lines) > 1
    /\ Len(ex.function_lines) = Len(ex.lines)
    /\ ~HasChar(ex.line, "{")
    /\ ex.i = Len(ex.lines)
    /\ ex.functions = <<>>

\* C15: a unit is emitted only when the brace balance, counted on the lines
\* with their string literals stripped and starting with the first line that
\* holds a "{", has come back to exactly zero on the unit's last line; none
\* is emitted with the balance still above zero (the file ended inside the
\* body) or below zero.
C15_EmittedOnlyAtZeroBalance ==
    [][(ex.pc = "body" /\ ex'.pc = "search" /\ Len(ex'.functions) = Len(ex.functions) + 1)
          => ex.brace_count = 0]_vars

\* C16: every unit of a file of L lines has 1 <= start_line <= end_line <= L,
\* its content is the lines start_line..end_line of the file in order, its
\* first line matches the signature pattern of the language, and its name is
\* the name that pattern captures from that line.
C16_UnitIsSliceOfFile ==
    \A k \in 1..Len(ex.functions) :
        LET u == ex.functions[k]
            func_match == Search(language_patterns[ex.language].function_pattern,
                                 u.content[1], FALSE)
        IN  /\ 1 <= u.start_line
            /\ u.start_line <= u.end_line
            /\ u.end_line <= Len(splitlines(ex.content))
            /\ Len(u.content) = u.end_line - u.start_line + 1
            /\ u.content = SubSeq(splitlines(ex.content), u.start_line, u.end_line)
            /\ func_match.ok
            /\ u.name = SubSeq(u.content[1], func_match.g1[1], func_match.g1[2] - 1)

\* a finished call that returned a unit of the last two of three lines
C16_Witness ==
    /\ ex.pc = "done"
    /\ Len(ex.lines) = 3
    /\ \E k \in 1..Len(ex.functions) :
          /\ ex.functions[k].start_line = 2
          /\ ex.functions[k].end_line = 3
          /\ ex.functions[k].name = "f"

\* C17: braces inside a single- or double-quoted span that is closed on the
\* same line do not change the brace balance of the body: when the text
\* inside such a span is replaced by any other text, with or without braces,
\* every unit keeps its start line and its end line.
C17_QuotedBracesIgnored ==
    (pc = "direct" /\ phase = "replaced" /\ ex.pc = "done") =>
        /\ Len(ex.functions) = Len(first.functions)
        /\ \A k \in 1..Len(ex.functions) :
              /\ ex.functions[k].start_line = first.functions[k].start_line
              /\ ex.functions[k].end_line = first.functions[k].end_line

\* C18: cyclomatic complexity adds one for every boolean operator in the text
\* of the unit, for each of and, or, && and ||, however it is delimited:
\* "a && b" as well as "a&&b".  Stated for the units that hold no branching
\* keyword, so that the operators are all that adds to 1; and, or count as
\* whole words in any letter case, && and || wherever they stand.
C18_BooleanOperatorsCounted ==
    (pc = "calculated" /\ unit.language # "unknown") =>
        LET text == LowerStr(JoinNewline(unit.content))
            keywords == language_patterns[unit.language].branching_keywords
            words == Cardinality({t \in (1..Len(text)) \X {"and", "or"} :
                        /\ t[1] + Len(t[2]) - 1 <= Len(text)
                        /\ SubSeq(text, t[1], t[1] + Len(t[2]) - 1) = t[2]
                        /\ (t[1] = 1 \/ Ch(text, t[1] - 1) \notin WordChars)
                        /\ (t[1] + Len(t[2]) - 1 = Len(text)
                              \/ Ch(text, t[1] + Len(t[2])) \notin WordChars)})
            symbols == Cardinality({t \in (1..Len(text)) \X {"&&", "||"} :
                          t[1] < Len(text) /\ SubSeq(text, t[1], t[1] + 1) = t[2]})
        IN  (\A k \in 1..Len(keywords) : ~Contains(text, keywords[k]))
                => metrics.cyclomatic_complexity = 1 + words + symbols

\* C19: for a brace-based unit the cognitive complexity is the sum, over the
\* lines whose trimmed text holds a branching keyword, of the nesting counter
\* (one up on "{", one down but not below zero on "}") plus 1, each such line
\* adding once; the other lines add nothing.
C19_KeywordLineAddsOnce ==
    (pc = "calculated" /\ unit.language \notin {"unknown", "python"}) =>
        LET keywords == language_patterns[unit.language].branching_keywords
            holds(line) == \E w \in 1..Len(keywords) :
                              Search(KeywordPattern(keywords[w]), strip(line), TRUE).ok
        IN  metrics.cognitive_complexity =
                SumSeq(<<>> \o [k \in 1..Len(unit.content) |->
                                  IF holds(unit.content[k])
                                  THEN BraceNestingLevel(unit.content, k) + 1
                                  ELSE 0])

\* C20: for a python unit the nesting counter never goes down from one line
\* to the next, and the cognitive complexity is n * (n + 1) / 2, n being the
\* number of lines that contain one of if, for, while, try, with.
C20_PythonTriangular ==
    (pc = "calculated" /\ unit.language = "python") =>
        LET n == Cardinality({k \in 1..Len(unit.content) :
                    \E i \in 1..Len(unit.content[k]), w \in {"if", "for", "while", "try", "with"} :
                        /\ i + Len(w) - 1 <= Len(unit.content[k])
                        /\ SubSeq(unit.content[k], i, i + Len(w) - 1) = w})
        IN  /\ \A k \in 1..Len(unit.content) :
                  PythonNestingLevel(unit.content, k) >= PythonNestingLevel(unit.content, k - 1)
            /\ 2 * metrics.cognitive_complexity = n * (n + 1)

\* six lines, five of them with a keyword (one inside the word notify)
C20_Witness ==
    /\ pc = "calculated"
    /\ unit.language = "python"
    /\ Len(unit.content) = 6
    /\ metrics.cognitive_complexity = 15

\* C21: the parameter count is the number of comma-separated tokens in the
\* first pair of parentheses of the first line; for python one is taken off
\* exactly when one of the tokens is self (not when self is part of another
\* token); an empty list gives 0 and the count is never negative.
C21_ParameterTokens ==
    (pc = "calculated" /\ unit.language # "unknown") =>
        LET first_line == unit.content[1]
            param_match == Search(ParameterListPattern, first_line, FALSE)
            params == IF param_match.ok
                      THEN strip(SubSeq(first_line, param_match.g1[1], param_match.g1[2] - 1))
                      ELSE ""
            tokens == SplitOn(params, ",")
            self_token == \E k \in 1..Len(tokens) : strip(tokens[k]) = "self"
            counted == Len(tokens) - (IF unit.language = "python" /\ self_token THEN 1 ELSE 0)
        IN  /\ metrics.parameter_count >= 0
            /\ metrics.parameter_count =
                  IF params = "" THEN 0 ELSE IF counted > 0 THEN counted ELSE 0

\* C22: the documentation_score of the metrics of a unit is one of 0, 2, 4,
\* 6, 8, 10.  A unit is what the extractor creates: its language is that of
\* a profile and its first line, a signature, is not blank.
C22_DocumentationScoreValues ==
    /\ (pc = "calculated" /\ unit.language # "unknown"
          /\ \E k \in 1..Len(unit.content) : strip(unit.content[k]) # "")
          => metrics.documentation_score \in {0, 2, 4, 6, 8, 10}
    /\ pc = "scored" => doc.documentation_score \in {0, 2, 4, 6, 8, 10}
    /\ \A k \in 1..Len(discovered) :
          discovered[k].rule_analysis.documentation_score \in {0, 2, 4, 6, 8, 10}

\* ten lines, one of them a comment, scored 4
C22_Witness ==
    /\ pc = "calculated"
    /\ unit = [content |-> CommentedUnit(1, 10), language |-> "java"]
    /\ metrics.documentation_score = 4

\* C23: the metrics of any unit have cyclomatic_complexity >= 1 and
\* nesting_depth, function_length, parameter_count, cognitive_complexity all
\* >= 0, and function_length is at most the number of lines of the unit.
C23_MetricRanges ==
    pc = "calculated" =>
        /\ metrics.cyclomatic_complexity >= 1
        /\ metrics.nesting_depth >= 0
        /\ metrics.function_length >= 0
        /\ metrics.parameter_count >= 0
        /\ metrics.cognitive_complexity >= 0
        /\ metrics.function_length <= Len(unit.content)

\* a unit that closes a brace it never opened, and one line of code
C23_Witness ==
    /\ pc = "calculated"
    /\ unit = [content |-> <<" }">>, language |-> "java"]
    /\ metrics.nesting_depth = 0
    /\ metrics.function_length = 1

\* 20 times the score the six metrics m give by the stated weights
C24_TwentyTimesScore(m) ==
    60 * m.cyclomatic_complexity + 50 * m.nesting_depth + 3 * m.function_length
    + 20 * m.parameter_count + 40 * m.cognitive_complexity
    + 4 * (10 - m.documentation_score)

\* C24: total_score is 3.0 * cyclomatic + 2.5 * nesting_depth
\* + 1.5 * (function_length / 10) + 1.0 * parameter_count + 2.0 * cognitive
\* + (10 - documentation_score) / 10 * 2.0 of the unit's own six metrics, and
\* the rule_score of the record is that value (scores are held times 20).
C24_WeightedTotal ==
    /\ \A k \in 1..Len(discovered) :
          discovered[k].rule_analysis.rule_score
              = C24_TwentyTimesScore(discovered[k].rule_analysis)
    /\ \A k \in 1..Len(results) :
          results[k].rule_analysis.rule_score = C24_TwentyTimesScore(results[k].rule_analysis)
    /\ pc = "calculated" => metrics.total_score = C24_TwentyTimesScore(metrics)

\* a finished scan with a record of a nested function with a parameter
C24_Witness ==
    /\ pc = "done"
    /\ \E k \in 1..Len(returned) :
          /\ returned[k].rule_analysis.parameter_count > 0
          /\ returned[k].rule_analysis.nesting_depth > 0
          /\ returned[k].rule_analysis.rule_score = 319

\* the number of the line read last (lines are numbered from 1)
C25_LastVisited(e) == IF e.pc = "signature" THEN e.i + 1 ELSE e.i

\* a step of the running call
C25_Step == ex.pc \in {"search", "signature", "body"} /\ ex' # ex

\* a step that reads a line: in the outer loop, in the signature loop, in the
\* body loop
C25_Reads ==
    \/ ex.pc = "search" /\ ex'.pc # "done"
    \/ ex.pc = "signature" /\ ex'.pc = "signature"
    \/ ex.pc = "body" /\ ex'.pc = "body"

\* what is left to do: four for every line not yet read, and the steps that
\* can follow the last line read
C25_Measure(e) ==
    4 * (Len(e.lines) - C25_LastVisited(e))
    + (CASE e.pc = "signature" -> 3 [] e.pc = "body" -> 2 [] e.pc = "search" -> 1
         [] OTHER -> 0)

\* C25: extract_functions terminates: every pass of the outer loop, of the
\* signature loop and of the body loop moves the line index forward, the
\* lines are read one after the other, none twice and none beyond the last,
\* and every step of a running call brings it nearer to its return: it lowers
\* a measure that is never negative.
C25_Terminates ==
    [][C25_Step =>
            /\ ex'.lines = ex.lines
            /\ ex'.i >= ex.i
            /\ C25_LastVisited(ex') <= Len(ex.lines)
            /\ IF C25_Reads
               THEN /\ C25_LastVisited(ex') = C25_LastVisited(ex) + 1
                    /\ ex'.line = ex.lines[C25_LastVisited(ex')]
               ELSE C25_LastVisited(ex') = C25_LastVisited(ex)
            /\ (ex.pc = "search" /\ ex'.pc = "search") => ex'.i > ex.i
            /\ (ex.pc # "search" /\ ex'.pc = "search") => ex'.i > ex.start_line - 1
            /\ (ex.pc = ex'.pc) => ex'.i > ex.i
            /\ C25_Measure(ex') >= 0
            /\ C25_Measure(ex') < C25_Measure(ex)]_vars

\* a call on three lines that returned after a signature loop and a body loop
C25_Witness ==
    /\ pc = "direct"
    /\ ex.pc = "done"
    /\ ex.i = 3
    /\ Len(ex.lines) = 3
    /\ \E k \in 1..Len(ex.functions) :
          /\ ex.functions[k].end_line = 3
          /\ ~HasChar(ex.functions[k].content[1], "{")

\* C26: on an analyzer whose github_repo_url was never assigned,
\* analyze_codebase does not raise: every file with at least one extracted
\* unit fails in the handler of its file before a record is appended, and
\* the returned list is empty.
C26_UnsetUrlGivesEmptyList ==
    /\ [](github_repo_url = NoAttribute =>
            /\ results = <<>>
            /\ discovered = <<>>
            /\ pc = "done" => returned = <<>>)
    /\ [][(github_repo_url = NoAttribute /\ pc = "extract" /\ pc' # "extract"
            /\ ex.functions # <<>>)
            => /\ filepath \in failed'
               /\ results' = <<>>
               /\ pc' = "scan"]_vars

\* a scan without the attribute that opened files with functions and returned
C26_Witness ==
    /\ github_repo_url = NoAttribute
    /\ pc = "done"
    /\ returned = <<>>
    /\ \E f \in failed : basename(f) = "e.go"
    /\ \E f \in failed : basename(f) = "c.py"

\* the root path's own base name is excluded
C27_RootExcluded ==
    \/ basename(rstrip_sep(root_path)) \in skip_dirs
    \/ startswith(basename(rstrip_sep(root_path)), ".")

\* the file of the path lies directly in the root directory
C27_InRoot(path) == Len(Components(relpath(path, root_path))) = 1

\* C27: the exclusion rule holds for the root of the scan too: when the base
\* name of the root path is in the directory denylist or starts with a dot
\* (root "."), no file directly in the root directory gets a record.
C27_ExcludedRootFilesUnrecorded ==
    (pc \in {"scan", "extract", "done"} /\ C27_RootExcluded) =>
        /\ \A t \in tagged : ~C27_InRoot(t[1])
        /\ \A path \in opened : ~C27_InRoot(path)
        /\ \A k \in 1..Len(discovered) :
              \A t \in tagged : discovered[k].file_url = "file:///" \o t[1] => ~C27_InRoot(t[1])
        /\ \A k \in 1..Len(discovered) :
              \E t \in tagged : discovered[k].file_url = "file:///" \o t[1]

\* a finished scan of root "." that skipped the root and has records of files
\* further down
C27_Witness ==
    /\ pc = "done"
    /\ root_path = "."
    /\ "." \in skipped_dirs
    /\ returned # <<>>

\* line j is the first of the lines to hold a "{", and outside its string
\* literals it holds no brace
C28_QuotedSeed(lines, j) ==
    /\ HasChar(lines[j], "{")
    /\ \A k \in 1..(j - 1) : ~HasChar(lines[k], "{")
    /\ ~HasChar(strip_string_literals(lines[j]), "{")
    /\ ~HasChar(strip_string_literals(lines[j]), "}")

C29_Documented(m, score) ==
    [cyclomatic_complexity |-> m.cyclomatic_complexity, nesting_depth |-> m.nesting_depth,
     function_length |-> m.function_length, parameter_count |-> m.parameter_count,
     cognitive_complexity |-> m.cognitive_complexity, documentation_score |-> score]

\* the score s (held times 20) of the metrics m is at least 3.0, its
\* documentation penalty lies between 0 and 2.0, its other terms are not
\* negative, and no higher documentation score gives a higher total
C29_Bounded(m, s) ==
    /\ s >= 60
    /\ 4 * (10 - m.documentation_score) >= 0
    /\ 4 * (10 - m.documentation_score) <= 40
    /\ m.cyclomatic_complexity >= 1
    /\ m.nesting_depth >= 0 /\ m.function_length >= 0
    /\ m.parameter_count >= 0 /\ m.cognitive_complexity >= 0
    /\ \A score \in m.documentation_score..10 : TotalScore(C29_Documented(m, score)) <= s
    /\ \A score \in 0..m.documentation_score : TotalScore(C29_Documented(m, score)) >= s

\* C29: every record analyze_codebase returns has rule_score >= 3.0: the
\* documentation penalty is between 0 and 2.0, the other weighted terms are
\* not negative and cyclomatic complexity is at least 1; a higher
\* documentation score with the other metrics kept never gives a higher
\* rule_score.
C29_ScoreAtLeastThree ==
    /\ \A k \in 1..Len(discovered) :
          C29_Bounded(discovered[k].rule_analysis, discovered[k].rule_analysis.rule_score)
    /\ pc = "done" =>
          \A k \in 1..Len(returned) :
              C29_Bounded(returned[k].rule_analysis, returned[k].rule_analysis.rule_score)
    /\ pc = "calculated" => C29_Bounded(metrics, metrics.total_score)

\* a returned record of the lowest score met: one line, nothing else
C29_Witness ==
    /\ pc = "done"
    /\ \E k \in 1..Len(returned) : returned[k].rule_analysis.rule_score = 103
    /\ \E k \in 1..Len(returned) : returned[k].rule_analysis.rule_score > 103


\* the path of the file a record was made for
C30_Path(r) == SubSeq(r.file_url, Len("file:///") + 1, Len(r.file_url))

\* the places in discovery order of the records of one file
C30_RecordsOfFile(path) ==
    {k \in 1..Len(discovered) : C30_Path(discovered[k]) = path}

\* the fields of a record the path of its file does not enter
C30_OwnFields(r) ==
    [function_name |-> r.function_name, start_line |-> r.start_line,
     end_line |-> r.end_line, language |-> r.language,
     rule_analysis |-> r.rule_analysis]

\* two scanned files of the same text and language that both got records
C30_SameText(p, q) ==
    /\ p # q
    /\ C30_RecordsOfFile(p) # {} /\ C30_RecordsOfFile(q) # {}
    /\ \E t \in tagged : \E u \in tagged : t[1] = p /\ u[1] = q /\ t[2] = u[2]
    /\ FileContent(basename(p)) = FileContent(basename(q))

\* the records of two files of the same text are the same, line for line
C30_SameRecords(p, q) ==
    /\ Cardinality(C30_RecordsOfFile(p)) = Cardinality(C30_RecordsOfFile(q))
    /\ \A j \in C30_RecordsOfFile(p) : \E k \in C30_RecordsOfFile(q) :
          C30_OwnFields(discovered[j]) = C30_OwnFields(discovered[k])

\* the returned list is fixed by the scores of the records alone, up to the
\* order of equal scores and the choice among the records of the score c at
\* the last place
C30_RankedByScoreOnly ==
    LET score(r) == r.rule_analysis.rule_score
        N == Len(discovered)
        above(c) == {k \in 1..N : score(discovered[k]) > c}
        from(c) == {k \in 1..N : score(discovered[k]) >= c}
        kept(c) == {k \in 1..Len(returned) : score(returned[k]) = c}
    IN  /\ Len(returned) = IF N < TopN THEN N ELSE TopN
        /\ \A k \in 1..Len(returned) : \E d \in 1..N : discovered[d] = returned[k]
        /\ \A j \in 1..Len(returned) : \A k \in (j + 1)..Len(returned) :
              /\ returned[j] # returned[k]
              /\ score(returned[j]) >= score(returned[k])
        /\ N > TopN =>
              \E c \in {score(returned[Len(returned)])} :
                  /\ Cardinality(above(c)) < TopN
                  /\ Cardinality(from(c)) >= TopN
                  /\ \A d \in above(c) : \E k \in 1..Len(returned) : returned[k] = discovered[d]
                  /\ \A k \in 1..Len(returned) : score(returned[k]) >= c
                  /\ Cardinality(kept(c)) = TopN - Cardinality(above(c))

\* what holds of the records in every state of a scan
C30_Independent ==
    /\ \A p \in opened : \A q \in opened : C30_SameText(p, q) => C30_SameRecords(p, q)
    /\ \A k \in 1..Len(discovered) :
          discovered[k].github_url
              = github_repo_url \o relpath(C30_Path(discovered[k]), root_path) \o "#L"
                \o Decimal(discovered[k].start_line) \o "-L"
                \o Decimal(discovered[k].end_line)
    /\ pc # "done" => results = discovered
    /\ pc = "done" => C30_RankedByScoreOnly

=============================================================================
